---- MODULE Spec2Model ----
(***************************************************************************)
(* The reflection agent of main_old.py / main_new.py: a LangGraph graph    *)
(* with two nodes, "generate" and "reflect", a conditional edge after      *)
(* "generate" (should_continue) and a plain edge from "reflect" back to    *)
(* "generate".  The graph state is the message history.                    *)
(*                                                                         *)
(* main_old.py keeps the history as the bare state (MessageGraph), and     *)
(* main_new.py keeps it under the key "messages" of a TypedDict whose      *)
(* reducer is add_messages.  Both are modelled; `variant` says which one   *)
(* a run executes.                                                         *)
(*                                                                         *)
(* The source compares the history length with the literal 6.  The model   *)
(* keeps that number in the variable `threshold`, fixed for a run, so      *)
(* that statements about other thresholds can be written down; the runs    *)
(* of the source are the runs with threshold = DefaultThreshold.           *)
(***************************************************************************)
EXTENDS Integers, Sequences, FiniteSets

VARIABLES
    variant,    \* "old" (main_old.py) or "new" (main_new.py)
    threshold,  \* the number should_continue compares the length with
    messages,   \* the history: the graph state (old) / state["messages"] (new)
    pc,         \* the node to run next, END, or RAISED
    res,        \* the value the last chain.invoke returned (NoResponse before)
    trace,      \* the control states entered so far, in order (history variable)
    seed,       \* the history the run started with (history variable)
    call,       \* the last chain.invoke: the chain and the prompt it was given
    error,      \* the exception that left graph.invoke (NoError: none)
    peer        \* a second run of graph.invoke in the same process (NoPeer: none)

vars == <<variant, threshold, messages, pc, res, trace, seed, call, error,
          peer>>

----------------------------------------------------------------------------
(* Bounds of the model. *)

\* The largest threshold a run is started with.
MaxThreshold == 7

\* A cap on the number of control states a run enters; no run of the graph
\* reaches it (CapNotReached), it only keeps the faulty variants finite.
MaxSteps == 12

\* The texts a message can carry.
Contents == {"c1", "c2"}

\* The largest of the small thresholds two runs side by side are started
\* with (they are also started with DefaultThreshold).
MaxPairThreshold == 2

\* The texts of the second run when the two runs interleave: kept apart from
\* those of the first run, so that a message tells which run it belongs to.
PeerContents == {"p1"}

----------------------------------------------------------------------------
(* Constants of the program. *)

\* The literal of should_continue.
DefaultThreshold == 6

GENERATE == "generate"
REFLECT == "reflect"
END == "__end__"

\* The control state of a run whose chain.invoke raised: the nodes catch
\* nothing, so the exception leaves graph.invoke.
RAISED == "raised"

Variants == {"old", "new"}

Thresholds == -1 .. MaxThreshold

PairThresholds == (0 .. MaxPairThreshold) \cup {DefaultThreshold}

----------------------------------------------------------------------------
(* Messages. *)

HumanMessage(c) == [type |-> "human", content |-> c]

AIMessage(c) == [type |-> "ai", content |-> c]

\* What a chain (prompt | llm) can return: the chat model answers with an
\* AIMessage of any content.
LLMResponses == {AIMessage(c) : c \in Contents}

NoResponse == [type |-> "none", content |-> "none"]

SystemMessage(c) == [type |-> "system", content |-> c]

\* The prompts: the system text, then the messages given, as they are.
generation_prompt(msgs) == <<SystemMessage("generation_prompt")>> \o msgs

reflection_prompt(msgs) == <<SystemMessage("reflection_prompt")>> \o msgs

NoCall == [chain |-> "none", prompt |-> <<>>]

\* An exception as it leaves graph.invoke.  Nothing in the source catches,
\* wraps or labels an exception, so it carries no control-state tag.
Exception(origin) == [origin |-> origin, tags |-> {}]

NoError == [origin |-> "none", tags |-> {}]

\* No second run.
NoPeer ==
    [variant |-> "none", seed |-> <<>>, messages |-> <<>>, pc |-> "none",
     res |-> NoResponse, trace |-> <<>>, same |-> TRUE]

\* Faulty variant: a message equal to one that is stored is merged with it
\* and not appended.
add_messages_merge(left, right) ==
    IF \E i \in 1 .. Len(left) : \E j \in 1 .. Len(right) : left[i] = right[j]
    THEN left
    ELSE left \o right

\* Faulty variant: the update is put in front of the history.
add_messages_prepend(left, right) == right \o left

\* The reducer of the history: the update is appended to what is there.
add_messages(left, right) == left \o right

----------------------------------------------------------------------------
(* The nodes.  `state` is the state the node receives and `r` the value    *)
(* its chain.invoke returned; the result is the node's return value.       *)

\* Faulty variant: the candidate is relabelled like a critique.
generation_node_old_human(state, r) == HumanMessage(r.content)

generation_node_old(state, r) == r

\* Faulty variant: the critique repeats the text of the last message of the
\* history instead of the text of the chain's answer.
reflection_node_old_stale(state, r) == HumanMessage(state[Len(state)].content)

reflection_node_old(state, r) == HumanMessage(r.content)

\* Faulty variant: the node returns the whole history with the answer, and
\* the reducer appends all of it.
generation_node_new_resend(state, r) ==
    [messages |-> state.messages \o <<r>>]

generation_node_new(state, r) == [messages |-> <<r>>]

\* Faulty variant: the chain's answer is returned as it is.
reflection_node_new_raw(state, r) == [messages |-> <<r>>]

reflection_node_new(state, r) == [messages |-> <<HumanMessage(r.content)>>]

\* Faulty variant: only the last message is given to the chain.
chain_input_old_last(state) == SubSeq(state, Len(state), Len(state))

\* What the node gives its chain as "messages".
chain_input_old(state) == state

chain_input_new(state) == state.messages

\* The state the node receives.
StateOf(v, msgs) == IF v = "old" THEN msgs ELSE [messages |-> msgs]

\* The history of a state.
HistoryOf(v, state) == IF v = "old" THEN state ELSE state.messages

\* Faulty variant: no reducer, the returned value replaces the state.
ApplyUpdate_overwrite(v, state, ret) ==
    IF v = "old" THEN <<ret>> ELSE [messages |-> ret.messages]

\* The framework's update of the state with a node's return value: a
\* MessageGraph adds the returned message to the sequence, a StateGraph
\* reduces each returned key with the key's reducer.
ApplyUpdate(v, state, ret) ==
    IF v = "old"
    THEN add_messages(state, <<ret>>)
    ELSE [messages |-> add_messages(state.messages, ret.messages)]

----------------------------------------------------------------------------
(* The edges. *)

\* Faulty variant: the two branches are exchanged.
should_continue_old_swapped(state) ==
    IF Len(state) > threshold THEN REFLECT ELSE END

\* Faulty variant: >= for >.
should_continue_old_ge(state) ==
    IF Len(state) >= threshold THEN END ELSE REFLECT

should_continue_old(state) ==
    IF Len(state) > threshold THEN END ELSE REFLECT

\* Faulty variant: the two branches are exchanged.
should_continue_new_swapped(state) ==
    IF Len(state.messages) > threshold THEN REFLECT ELSE END

\* Faulty variant: >= for >.
should_continue_new_ge(state) ==
    IF Len(state.messages) >= threshold THEN END ELSE REFLECT

\* Faulty variant: len(state) for len(state["messages"]), the number of keys
\* of the state dictionary.
should_continue_new_keys(state) ==
    IF Cardinality(DOMAIN state) > threshold THEN END ELSE REFLECT

should_continue_new(state) ==
    IF Len(state.messages) > threshold THEN END ELSE REFLECT

path_map == [k \in {END, REFLECT} |-> k]

\* builder.add_conditional_edges(GENERATE, should_continue, path_map)
EdgeFromGenerate(v, state) ==
    path_map[IF v = "old" THEN should_continue_old(state)
                          ELSE should_continue_new(state)]

\* Faulty variant: the conditional edge is put after the reflection node too.
EdgeFromReflect_conditional(v, state) == EdgeFromGenerate(v, state)

\* builder.add_edge(REFLECT, GENERATE)
EdgeFromReflect(v, state) == GENERATE

----------------------------------------------------------------------------
(* The calls of the chains. *)

\* generation_chain.invoke({"messages": ...}) as the generation node makes it.
GenerationCall(v, state) ==
    [chain |-> "generation_chain",
     prompt |-> generation_prompt(IF v = "old" THEN chain_input_old(state)
                                               ELSE chain_input_new(state))]

\* reflection_chain.invoke({"messages": ...}) as the reflection node makes it.
ReflectionCall(v, state) ==
    [chain |-> "reflection_chain",
     prompt |-> reflection_prompt(IF v = "old" THEN chain_input_old(state)
                                               ELSE chain_input_new(state))]

----------------------------------------------------------------------------
(* The run. *)

\* What graph.invoke(inputs) can make of its input, one HumanMessage.
\* main_old.py: the state of a MessageGraph is a sequence of messages and the
\* input is its first message ("seeded").  main_new.py: the state is a
\* dictionary with the key "messages", and the input is not a dictionary;
\* what the framework does with it is not in the source, so every outcome is
\* kept: the message becomes the history ("seeded"), no key is written and
\* the history is empty ("dropped"), or graph.invoke raises ("rejected").
InvokeOutcomes(v) ==
    IF v = "old" THEN {"seeded"} ELSE {"seeded", "dropped", "rejected"}

\* The history a run starts with.
StartHistory(outcome, inputs) == IF outcome = "seeded" THEN <<inputs>> ELSE <<>>

\* graph.invoke(inputs): the input is one HumanMessage, and the entry point
\* is the generation node.
InitRun ==
    /\ variant \in Variants
    /\ threshold \in Thresholds
    /\ \E c \in Contents : \E outcome \in InvokeOutcomes(variant) :
         /\ seed = StartHistory(outcome, HumanMessage(c))
         /\ pc = IF outcome = "rejected" THEN RAISED ELSE GENERATE
         /\ error = IF outcome = "rejected" THEN Exception("graph.invoke")
                                            ELSE NoError
    /\ messages = seed
    /\ res = NoResponse
    /\ trace = IF pc = GENERATE THEN <<GENERATE>> ELSE <<>>
    /\ call = NoCall

\* One run of graph.invoke, as the source makes it.
Init == InitRun /\ peer = NoPeer

\* The generation node runs: the chain answers, the answer is added to the
\* history, and the conditional edge picks the next node.
GenerateRun ==
    /\ pc = GENERATE
    /\ Len(trace) < MaxSteps
    /\ \E r \in LLMResponses :
         LET state == StateOf(variant, messages)
             ret == IF variant = "old" THEN generation_node_old(state, r)
                                       ELSE generation_node_new(state, r)
             after == ApplyUpdate(variant, state, ret)
         IN  /\ res' = r
             /\ messages' = HistoryOf(variant, after)
             /\ pc' = EdgeFromGenerate(variant, after)
    /\ call' = GenerationCall(variant, StateOf(variant, messages))
    /\ trace' = Append(trace, pc')
    /\ UNCHANGED <<variant, threshold, seed, error>>

GenerateStep == GenerateRun /\ UNCHANGED peer

\* The reflection node runs: the chain answers, the answer is added to the
\* history as a HumanMessage, and the edge leads back to the generation node.
ReflectRun ==
    /\ pc = REFLECT
    /\ Len(trace) < MaxSteps
    /\ \E r \in LLMResponses :
         LET state == StateOf(variant, messages)
             ret == IF variant = "old" THEN reflection_node_old(state, r)
                                       ELSE reflection_node_new(state, r)
             after == ApplyUpdate(variant, state, ret)
         IN  /\ res' = r
             /\ messages' = HistoryOf(variant, after)
             /\ pc' = EdgeFromReflect(variant, after)
    /\ call' = ReflectionCall(variant, StateOf(variant, messages))
    /\ trace' = Append(trace, pc')
    /\ UNCHANGED <<variant, threshold, seed, error>>

ReflectStep == ReflectRun /\ UNCHANGED peer

\* chain.invoke raises in the node that is running: the node returns
\* nothing, the state is not updated, and the run ends with the exception.
InvokeRaises ==
    /\ pc \in {GENERATE, REFLECT}
    /\ call' = IF pc = GENERATE
               THEN GenerationCall(variant, StateOf(variant, messages))
               ELSE ReflectionCall(variant, StateOf(variant, messages))
    /\ error' = Exception("chain.invoke")
    /\ pc' = RAISED
    /\ UNCHANGED <<variant, threshold, messages, res, trace, seed, peer>>

\* The steps of a run in which every chain.invoke returns.
NextReturns == GenerateStep \/ ReflectStep

Next == GenerateStep \/ ReflectStep \/ InvokeRaises

Spec == Init /\ [][Next]_vars

\* A run in which every chain.invoke returns: graph.invoke runs the next
\* node as soon as the previous one has returned.
SpecReturns == Init /\ [][NextReturns]_vars /\ WF_vars(NextReturns)

----------------------------------------------------------------------------
(* Two runs of graph.invoke in one process.  Both use the module-level      *)
(* graph and chains; each graph.invoke has a state of its own, built from   *)
(* its own input (builder.compile() is given no checkpointer and the        *)
(* modules keep no list of messages).                                       *)

\* The second run, from the variant, the outcome of graph.invoke and the
\* text of its input.
PeerStart(v, outcome, c) ==
    [variant |-> v,
     seed |-> StartHistory(outcome, HumanMessage(c)),
     messages |-> StartHistory(outcome, HumanMessage(c)),
     pc |-> IF outcome = "rejected" THEN RAISED ELSE GENERATE,
     res |-> NoResponse,
     trace |-> IF outcome = "rejected" THEN <<>> ELSE <<GENERATE>>,
     same |-> TRUE]

\* Faulty variant: the history is one list of the process, and a node of a
\* run is given what the other run has written.
OwnHistory_shared(own, other) == other

\* The history a node of a run is given: that of its own run.
OwnHistory(own, other) == own

\* The second run after its generation node ran and the chain answered r.
PeerAfterGenerate(r) ==
    LET v == peer.variant
        state == StateOf(v, OwnHistory(peer.messages, messages))
        ret == IF v = "old" THEN generation_node_old(state, r)
                            ELSE generation_node_new(state, r)
        after == ApplyUpdate(v, state, ret)
    IN  [peer EXCEPT !.res = r,
                     !.messages = HistoryOf(v, after),
                     !.pc = EdgeFromGenerate(v, after),
                     !.trace = Append(@, EdgeFromGenerate(v, after))]

\* The second run after its reflection node ran and the chain answered r.
PeerAfterReflect(r) ==
    LET v == peer.variant
        state == StateOf(v, OwnHistory(peer.messages, messages))
        ret == IF v = "old" THEN reflection_node_old(state, r)
                            ELSE reflection_node_new(state, r)
        after == ApplyUpdate(v, state, ret)
    IN  [peer EXCEPT !.res = r,
                     !.messages = HistoryOf(v, after),
                     !.pc = EdgeFromReflect(v, after),
                     !.trace = Append(@, EdgeFromReflect(v, after))]

RunVars == <<variant, threshold, messages, pc, res, trace, seed, call, error>>

\* The same program is run twice, each run on an input of its own.
InitInterleaved ==
    /\ InitRun
    /\ threshold \in PairThresholds
    /\ \E c \in PeerContents : \E outcome \in InvokeOutcomes(variant) :
         peer = PeerStart(variant, outcome, c)

PeerGenerateStep ==
    /\ peer.pc = GENERATE
    /\ Len(peer.trace) < MaxSteps
    /\ \E c \in PeerContents : peer' = PeerAfterGenerate(AIMessage(c))
    /\ UNCHANGED RunVars

PeerReflectStep ==
    /\ peer.pc = REFLECT
    /\ Len(peer.trace) < MaxSteps
    /\ \E c \in PeerContents : peer' = PeerAfterReflect(AIMessage(c))
    /\ UNCHANGED RunVars

PeerInvokeRaises ==
    /\ peer.pc \in {GENERATE, REFLECT}
    /\ peer' = [peer EXCEPT !.pc = RAISED]
    /\ UNCHANGED RunVars

\* The steps of the two runs, in any order.
NextInterleaved ==
    \/ GenerateStep
    \/ ReflectStep
    \/ InvokeRaises
    \/ PeerGenerateStep
    \/ PeerReflectStep
    \/ PeerInvokeRaises

SpecInterleaved == InitInterleaved /\ [][NextInterleaved]_vars

\* Two runs side by side, step for step: any two variants, each run on an
\* input of its own, each chain.invoke with an answer of its own.
InitLockstep ==
    /\ InitRun
    /\ threshold \in PairThresholds
    /\ \E v \in Variants : \E c \in Contents : \E outcome \in InvokeOutcomes(v) :
         peer = PeerStart(v, outcome, c)

\* Both runs run their generation node; peer.same records whether the two
\* chains have given the same answers so far.
LockstepGenerate ==
    /\ GenerateRun
    /\ peer.pc = GENERATE
    /\ Len(peer.trace) < MaxSteps
    /\ \E r \in LLMResponses :
         peer' = [PeerAfterGenerate(r) EXCEPT !.same = peer.same /\ (res' = r)]

\* Both runs run their reflection node.
LockstepReflect ==
    /\ ReflectRun
    /\ peer.pc = REFLECT
    /\ Len(peer.trace) < MaxSteps
    /\ \E r \in LLMResponses :
         peer' = [PeerAfterReflect(r) EXCEPT !.same = peer.same /\ (res' = r)]

NextLockstep == LockstepGenerate \/ LockstepReflect

SpecLockstep == InitLockstep /\ [][NextLockstep]_vars

----------------------------------------------------------------------------
(* Helpers of the properties. *)

Last(s) == s[Len(s)]

IsPrefix(s, t) == Len(s) <= Len(t) /\ SubSeq(t, 1, Len(s)) = s

\* The number of steps of `node` that have run to their end: every entry of
\* the trace but the last is a control state the run has left.
StepsTaken(node) == Cardinality({i \in 1 .. (Len(trace) - 1) : trace[i] = node})

\* A step of a node that returned (the run moved to another control state
\* and did not raise).
NodeReturned == pc \in {GENERATE, REFLECT} /\ pc' \in {GENERATE, REFLECT, END}

\* The run started with a history of one message.
Seeded == Len(seed) = 1

\* The step cap is never what stops a run.
CapNotReached == Len(trace) < MaxSteps

----------------------------------------------------------------------------
(* Properties. *)

\* C1: for a 1-message seed and a threshold N >= 1, a run that reaches END
\* without a failed call has appended exactly N or exactly N + 1 messages.
C1_AppendedCount ==
    (pc = END /\ threshold >= 1 /\ Seeded) =>
        (Len(messages) - Len(seed)) \in {threshold, threshold + 1}

C1_Witness ==
    /\ pc = END
    /\ Seeded
    /\ threshold = DefaultThreshold
    /\ Len(messages) - Len(seed) = threshold + 1

\* C2: with threshold 6 the control states of a failure-free run are, in
\* order, generate, reflect, generate, reflect, generate, reflect, generate,
\* END: the trace is always a prefix of that sequence and is all of it at END.
C2_ExpectedTrace ==
    <<GENERATE, REFLECT, GENERATE, REFLECT, GENERATE, REFLECT, GENERATE, END>>

C2_StateSequence ==
    (threshold = DefaultThreshold /\ Seeded) =>
        /\ IsPrefix(trace, C2_ExpectedTrace)
        /\ pc = END => trace = C2_ExpectedTrace

C2_Witness ==
    /\ pc = END
    /\ Seeded
    /\ threshold = DefaultThreshold
    /\ trace = C2_ExpectedTrace

\* C3 as stated: with threshold 6 a failure-free run has executed exactly 3
\* generation steps and exactly 2 reflection steps when it reaches END.
C3_Original ==
    (pc = END /\ threshold = DefaultThreshold /\ Seeded) =>
        (StepsTaken(GENERATE) = 3 /\ StepsTaken(REFLECT) = 2)

\* C3 (amended): with threshold 6 a failure-free run has executed exactly 4
\* generation steps and exactly 3 reflection steps when it reaches END.
C3_StepCounts ==
    (pc = END /\ threshold = DefaultThreshold /\ Seeded) =>
        (StepsTaken(GENERATE) = 4 /\ StepsTaken(REFLECT) = 3)

C3_Witness ==
    /\ pc = END
    /\ Seeded
    /\ threshold = DefaultThreshold
    /\ StepsTaken(GENERATE) = 4
    /\ StepsTaken(REFLECT) = 3

\* C4: END is entered only by a generation step, and a reflection step that
\* returns always leads to generate, whatever the length of the history.
C4_DoneOnlyAfterGenerate ==
    [][ /\ (pc' = END) => (pc = GENERATE)
        /\ (pc = REFLECT /\ pc' # RAISED) => (pc' = GENERATE) ]_vars

\* A reflection step has just returned with a history longer than the
\* threshold, and the run is about to generate.
C4_Witness ==
    /\ pc = GENERATE
    /\ Len(trace) >= 2
    /\ trace[Len(trace) - 1] = REFLECT
    /\ threshold >= 1
    /\ Len(messages) > threshold

\* C5: at END the last message of the history is the answer of the generation
\* chain as it was returned (an AIMessage), the last step was a generation
\* step, and the history is longer than the seed.
C5_DoneEndsOnGeneration ==
    pc = END =>
        /\ Len(messages) > Len(seed)
        /\ Last(messages) = res
        /\ Last(messages).type = "ai"
        /\ trace[Len(trace) - 1] = GENERATE

C5_Witness ==
    /\ pc = END
    /\ Seeded
    /\ Last(messages) = res
    /\ Last(messages).type = "ai"
    /\ messages[Len(messages) - 1].type = "human"

\* C6: with a 1-message seed and a threshold N >= 1, a run in which every
\* chain.invoke returns reaches END, and no step is taken from END.
C6_Terminates ==
    /\ (threshold >= 1 /\ Seeded) => <>(pc = END)
    /\ [][pc # END]_vars

C6_Witness ==
    /\ pc = END
    /\ Seeded
    /\ threshold >= 1
    /\ res # NoResponse
    /\ Len(trace) = Len(messages)

\* C7: a generation step or a reflection step that returns makes the history
\* exactly one message longer, and no step makes it shorter.
C7_LengthPlusOne ==
    [][ /\ NodeReturned => (Len(messages') = Len(messages) + 1)
        /\ Len(messages') >= Len(messages) ]_vars

\* A generation step and a reflection step have run, and each added one
\* message to the seed.
C7_Witness ==
    /\ pc = GENERATE
    /\ StepsTaken(GENERATE) = 1
    /\ StepsTaken(REFLECT) = 1
    /\ Len(messages) = 3

\* C8: the history before a step is a prefix of the history after it.
C8_AppendOnly ==
    [][IsPrefix(messages, messages')]_vars

\* Four steps have run and the seed and the first candidate are where they
\* were, in front of two later messages of other contents.
C8_Witness ==
    /\ Len(messages) = 5
    /\ messages[1].type = "human"
    /\ messages[2].type = "ai"
    /\ messages[3].content # messages[1].content
    /\ messages[4].content # messages[2].content

\* C9: the message a reflection step appends is a HumanMessage, not the
\* message the reflection chain returned.
C9_ReflectionStoredAsHuman ==
    [][ (pc = REFLECT /\ pc' = GENERATE) =>
            /\ Len(messages') = Len(messages) + 1
            /\ Last(messages').type = "human"
            /\ res'.type = "ai"
            /\ Last(messages') # res' ]_vars

\* A reflection step has just stored its critique.
C9_Witness ==
    /\ pc = GENERATE
    /\ Len(trace) >= 2
    /\ trace[Len(trace) - 1] = REFLECT
    /\ res.type = "ai"
    /\ Last(messages).type = "human"

\* C10: the message a reflection step appends carries the content of the
\* message the reflection chain returned for that call.
C10_ContentPreserved ==
    [][ (pc = REFLECT /\ pc' = GENERATE) =>
            Last(messages').content = res'.content ]_vars

\* A reflection step has just stored a critique whose content is the
\* answer's, and differs from the content of the candidate before it.
C10_Witness ==
    /\ pc = GENERATE
    /\ Len(trace) >= 2
    /\ trace[Len(trace) - 1] = REFLECT
    /\ Last(messages).content = res.content
    /\ Last(messages).content # messages[Len(messages) - 1].content

\* C11: with threshold 0 and a 1-message seed, the first generation step
\* that returns leads to END, with a history of exactly 2 messages and no
\* reflection step.
C11_ThresholdZero ==
    (threshold = 0 /\ Seeded) =>
        /\ IsPrefix(trace, <<GENERATE, END>>)
        /\ pc = END => /\ Len(messages) = 2
                       /\ StepsTaken(GENERATE) = 1
                       /\ StepsTaken(REFLECT) = 0

C11_Witness ==
    /\ pc = END
    /\ threshold = 0
    /\ Seeded
    /\ Len(messages) = 2
    /\ StepsTaken(REFLECT) = 0

\* C12 as stated: when the first reflection call (the 2nd call of the run)
\* fails, the run is aborted with a failure tagged with the reflecting
\* state, the failed call was the last one, and the history holds the seed
\* and the first candidate, unmodified.
C12_Original ==
    (pc = RAISED /\ Seeded /\ trace = <<GENERATE, REFLECT>>) =>
        /\ REFLECT \in error.tags
        /\ call.chain = "reflection_chain"
        /\ messages = seed \o <<res>>

\* The part of C12 that does not depend on the tag: the run is aborted, the
\* failed call was the last one, and the history is the seed and the first
\* candidate.
C12_AbortKeepsHistory ==
    (pc = RAISED /\ Seeded /\ trace = <<GENERATE, REFLECT>>) =>
        /\ error = Exception("chain.invoke")
        /\ call.chain = "reflection_chain"
        /\ messages = seed \o <<res>>
        /\ ~ ENABLED Next

C15_Original ==
    /\ Len(seed) = 1
    /\ seed[1].type = "human"
    /\ Len(trace) >= 1
    /\ trace[1] = GENERATE

\* The part of C15 that holds: a run of main_old.py starts in generate with
\* a history of exactly one HumanMessage.
C15_OldVariantSeeded ==
    (variant = "old") =>
        /\ Len(seed) = 1
        /\ seed[1].type = "human"
        /\ Len(trace) >= 1
        /\ trace[1] = GENERATE

\* The history of each run is its own seed followed by messages of its own
\* run, one for each of its steps that returned.
C14_OwnMessagesOnly ==
    /\ \A i \in 1 .. Len(messages) : messages[i].content \in Contents
    /\ \A i \in 1 .. Len(peer.messages) :
           peer.messages[i].content \in PeerContents
    /\ IsPrefix(seed, messages)
    /\ IsPrefix(peer.seed, peer.messages)
    /\ (pc # RAISED) => (Len(messages) = Len(seed) + Len(trace) - 1)
    /\ (peer.pc # RAISED) =>
           (Len(peer.messages) = Len(peer.seed) + Len(peer.trace) - 1)

\* Both runs are under way, each with messages of its own only.
C14_Witness ==
    /\ Len(messages) >= 3
    /\ Len(peer.messages) >= 3
    /\ pc \in {GENERATE, REFLECT}
    /\ peer.pc \in {GENERATE, REFLECT}
    /\ Len(messages) # Len(peer.messages)
    /\ \A i \in 1 .. Len(peer.messages) :
           peer.messages[i].content \in PeerContents

\* A step that changes one run changes nothing of the other.
C14_StepsTouchOneRun ==
    /\ (peer' # peer) => UNCHANGED RunVars
    /\ (RunVars' # RunVars) => (peer' = peer)

\* C14: when the steps of two runs interleave, a step of one run leaves the
\* history and the control state of the other as they were, and the history
\* of each run holds its own seed and the messages its own steps appended,
\* and nothing else.
C14_RunsIsolated ==
    /\ []C14_OwnMessagesOnly
    /\ [][C14_StepsTouchOneRun]_vars

\* C16: every chain.invoke, of either node, is given the system text followed
\* by the whole history as it is when the node starts, in order; after the
\* first step its last message is the one the step before appended.
C16_CallGetsWholeHistory ==
    [][ (pc \in {GENERATE, REFLECT} /\ pc' # pc) =>
            /\ call'.chain = IF pc = GENERATE THEN "generation_chain"
                                              ELSE "reflection_chain"
            /\ call'.prompt[1].type = "system"
            /\ Tail(call'.prompt) = messages
            /\ (Len(trace) >= 2) =>
                   /\ Last(call'.prompt).content = res.content
                   /\ Len(call'.prompt) = Len(call.prompt) + 1 ]_vars

\* The reflection node has just called its chain with the seed and the first
\* candidate, and appended the critique.
C16_Witness ==
    /\ pc = GENERATE
    /\ Len(messages) = 3
    /\ call.chain = "reflection_chain"
    /\ Len(call.prompt) = 3
    /\ call.prompt[2] = messages[1]
    /\ call.prompt[3] = messages[2]

\* C18: in a run started from a 1-message seed the messages at odd positions
\* are HumanMessages and those at even positions AIMessages; the generation
\* chain is called with a history that ends in a HumanMessage and the
\* reflection chain with one that ends in an AIMessage.
C18_RolesAlternate ==
    Seeded =>
        /\ \A i \in 1 .. Len(messages) :
               messages[i].type = IF i % 2 = 1 THEN "human" ELSE "ai"
        /\ (call.chain = "generation_chain") =>
               Last(call.prompt).type = "human"
        /\ (call.chain = "reflection_chain") =>
               Last(call.prompt).type = "ai"

C18_Witness ==
    /\ Seeded
    /\ Len(messages) >= 5
    /\ messages[3].type = "human"
    /\ messages[4].type = "ai"
    /\ call.chain = "generation_chain"
    /\ Last(call.prompt).type = "human"

\* C17: main_old.py and main_new.py, started on the same seed and given the
\* same answers by the chains, have entered the same control states and hold
\* equal histories after every step.
C17_VariantsEquivalent ==
    (variant = "old" /\ peer.variant = "new" /\ seed = peer.seed /\ peer.same) =>
        /\ trace = peer.trace
        /\ pc = peer.pc
        /\ messages = peer.messages

C17_Witness ==
    /\ variant = "old"
    /\ peer.variant = "new"
    /\ seed = peer.seed
    /\ peer.same
    /\ threshold = DefaultThreshold
    /\ pc = END
    /\ peer.pc = END
    /\ messages = peer.messages
    /\ Len(messages) = DefaultThreshold + 2

\* C19: two runs with seeds of the same length and the same threshold, none
\* of whose calls failed, have entered the same control states and hold
\* histories of the same length after every step, whatever the answers were.
C19_ControlIgnoresContent ==
    (Len(seed) = Len(peer.seed) /\ pc # RAISED /\ peer.pc # RAISED) =>
        /\ trace = peer.trace
        /\ Len(messages) = Len(peer.messages)

\* Two runs have ended together although their seeds and their answers
\* differed.
C19_Witness ==
    /\ Len(seed) = Len(peer.seed)
    /\ pc = END
    /\ peer.pc = END
    /\ threshold = DefaultThreshold
    /\ ~ peer.same
    /\ seed # peer.seed
    /\ \A i \in 1 .. Len(messages) : messages[i].content # peer.messages[i].content

====
